---- MODULE Spec2Model ----
(***************************************************************************)
(* Alignment scanner of SolarConflux: Geometry.check_geometry (pairwise    *)
(* classifier, per-anchor group builder, interval tracker) and the         *)
(* orchestration of matching_dates.                                        *)
(*                                                                         *)
(* Units.  Angles are exact integers in degrees (the code holds them as    *)
(* floats in radians: pi is 180, 2*pi is 360).  Distances are integers in  *)
(* megametres (1 Mm = 1000 km), solar wind speeds integers in km/s.  A     *)
(* Parker footpoint longitude is held as an integer multiple of            *)
(* 1 / ParkerScale(u_sw) degree, which is exact for these inputs.          *)
(* Timestamps are integer ticks, TicksPerSecond ticks to the second;       *)
(* strftime('%Y-%m-%d %H:%M:%S') keeps whole seconds only.                 *)
(***************************************************************************)
EXTENDS Integers, Sequences, FiniteSets, TLC

(***************************************************************************)
(* Bounds of the model.                                                    *)
(***************************************************************************)
MaxSteps == 3
MaxChoices == 2
TicksPerSecond == 2

(***************************************************************************)
(* Program constants.                                                      *)
(***************************************************************************)
FullTurn == 360
HalfTurn == 180
DefaultConeWidth == 10
DefaultTolerance == 10
ToleranceParker == 5
SourceSurfaceRadius == 1740
DefaultSolarWind == 400
RtolInverse == 100000
\* (solar_rotation_rate / u_sw) * (r_m - r_ss_m), in degrees, for r in Mm and
\* u_sw in km/s, is 360 * 10^6 * (r - r_ss) / (25.38 * 86400 * 10^3 * u_sw)
\* = ParkerNum * (r - r_ss) / (ParkerDen * u_sw).
ParkerNum == 625
ParkerDen == 3807

RecognizedModes ==
    <<"opposition", "cone", "quadrature", "arbitrary", "parker", "coneparker">>

\* The strings a caller may put in geometry_choices: the six recognized ones,
\* one that differs from a recognized one by case only, one that is unknown.
ModeStrings ==
    {RecognizedModes[i] : i \in 1..Len(RecognizedModes)} \cup {"Opposition", "conjunction"}

\* str.lower() on the strings of ModeStrings.
Lower(s) == IF s = "Opposition" THEN "opposition" ELSE s

\* Python's order on the body names used here ('A' < 'B' < 'C' < 'Sun').
NameRank == [A |-> 1, B |-> 2, C |-> 3, Sun |-> 4]

(***************************************************************************)
(* Arithmetic helpers.                                                     *)
(***************************************************************************)
Abs(x) == IF x < 0 THEN 0 - x ELSE x

\* Python's x % m for m > 0: the result is in [0, m).
PyMod(x, m) == ((x % m) + m) % m

\* numpy.isclose(a, b, atol=atol) with the default rtol = 1e-5:
\* |a - b| <= atol + rtol * |b|, on integers of one common unit.
IsClose(a, b, atol) == Abs(a - b) - atol <= Abs(b) \div RtolInverse

\* datetime.strftime('%Y-%m-%d %H:%M:%S'): the timestamp cut to whole seconds
\* (the string is represented by the number of whole seconds it denotes).
Strftime(date) == date \div TicksPerSecond

SeqToSet(s) == {s[i] : i \in 1..Len(s)}

RECURSIVE SortedTupleRec(_)
SortedTupleRec(S) ==
    IF S = {} THEN <<>>
    ELSE LET m == CHOOSE x \in S : \A y \in S : NameRank[x] <= NameRank[y]
         IN <<m>> \o SortedTupleRec(S \ {m})

\* tuple(sorted(group)) of a Python set of names.
SortedTuple(S) == SortedTupleRec(S)

(***************************************************************************)
(* State.                                                                  *)
(***************************************************************************)
VARIABLES
    trajectories,         \* ordered dict: sequence of [name, coords]
    geometry_choices,     \* list of requested mode strings
    u_sw,                 \* solar wind speed, km/s
    arbitrary_angle,      \* <<>> for None, <<angle>> otherwise
    geometry_class,       \* the module whose Geometry class runs the scan
    tolerance,            \* the tolerance argument of matching_dates, degrees
    geometry,             \* the Geometry object built by matching_dates
    pc,                   \* position in matching_dates / check_geometry
    mode_idx,             \* index of the mode being handled in geometry_choices
    step,                 \* number of timesteps check_geometry has processed
    active_groups,        \* ordered dict: sequence of [group, start_date, end_date]
    matching_entries,     \* list of [start, end, group] of the running scan
    all_matching_entries, \* dict mode -> list of records
    printed,              \* lines printed by matching_dates
    exception,            \* "none" or the exception that left matching_dates
    saved                 \* what save_match wrote: folder, header, rows, message

vars == <<trajectories, geometry_choices, u_sw, arbitrary_angle, geometry_class,
          tolerance, geometry, pc,
          mode_idx, step, active_groups, matching_entries, all_matching_entries,
          printed, exception, saved>>

inputs == <<trajectories, geometry_choices, u_sw, arbitrary_angle, geometry_class,
            tolerance>>

\* The two Geometry classes of the repository: solarconflux/geometries.py and
\* solarconflux/spatialitems/geometries.py.
GeometryClasses == {"solarconflux.geometries", "solarconflux.spatialitems.geometries"}

\* The class computes latitudes and has the latitude conditions.
ClassHasLatitudes(class) == class = "solarconflux.geometries"

HasLatitudes == ClassHasLatitudes(geometry_class)

(***************************************************************************)
(* Geometry.__init__ and calculate_angles.                                 *)
(***************************************************************************)
Names(traj) == [i \in 1..Len(traj) |-> traj[i].name]

\* len(next(iter(self.trajectories.values())))
NumSteps(traj) == Len(traj[1].coords)

\* list(self.trajectories).index(spacecraft)
IndexOf(traj, name) == CHOOSE i \in 1..Len(traj) : traj[i].name = name

\* skycoords[step] raises IndexError when a trajectory is shorter than the first.
CalculateAnglesRaises(traj) ==
    \E i \in 1..Len(traj) : Len(traj[i].coords) < NumSteps(traj)

\* calculate_angles that appends the longitude to step_lats as well.
calculate_angles_lon_as_lat(traj) ==
    [angles    |-> [s \in 1..NumSteps(traj) |->
                       [i \in 1..Len(traj) |-> PyMod(traj[i].coords[s].lon, FullTurn)]],
     latitudes |-> [s \in 1..NumSteps(traj) |->
                       [i \in 1..Len(traj) |-> PyMod(traj[i].coords[s].lon, FullTurn)]]]

calculate_angles(traj) ==
    [angles    |-> [s \in 1..NumSteps(traj) |->
                       [i \in 1..Len(traj) |-> PyMod(traj[i].coords[s].lon, FullTurn)]],
     latitudes |-> [s \in 1..NumSteps(traj) |->
                       [i \in 1..Len(traj) |-> traj[i].coords[s].lat]]]

\* calculate_angles of solarconflux/spatialitems/geometries.py: longitudes only.
calculate_angles_spatialitems(traj) ==
    [s \in 1..NumSteps(traj) |->
        [i \in 1..Len(traj) |-> PyMod(traj[i].coords[s].lon, FullTurn)]]

\* The fields __init__ sets: the spatialitems class has no latitudes (the
\* field is left empty here).
GeometryOf(class, traj, tol) ==
    IF ClassHasLatitudes(class)
    THEN LET a == calculate_angles(traj)
         IN [class |-> class, angles |-> a.angles, latitudes |-> a.latitudes,
             cone_width |-> DefaultConeWidth, tolerance |-> tol]
    ELSE [class |-> class, angles |-> calculate_angles_spatialitems(traj),
          latitudes |-> <<>>,
          cone_width |-> DefaultConeWidth, tolerance |-> tol]

\* Geometry(spacecraft_names, trajectories, frame, cone_width, tolerance) of
\* the class matching_dates imports.
NewGeometry(traj) == GeometryOf(geometry_class, traj, tolerance)

NoGeometry ==
    [class |-> "none", angles |-> <<>>, latitudes |-> <<>>,
     cone_width |-> DefaultConeWidth, tolerance |-> DefaultTolerance]

(***************************************************************************)
(* Parker spiral mapper.                                                   *)
(***************************************************************************)
\* Common denominator of the footpoint longitudes for one wind speed.
ParkerScale(u) == ParkerDen * Abs(u)

\* self.solar_rotation_rate / u_sw_mps raises ZeroDivisionError for u_sw = 0.
ParkerRaises(u) == u = 0

\* parker_spiral_function, result in units of 1 / ParkerScale(u) degree.
parker_spiral_function(r, lon, u) ==
    LET sgn == IF u < 0 THEN 0 - 1 ELSE 1
    IN PyMod(lon * ParkerScale(u) + sgn * ParkerNum * (r - SourceSurfaceRadius),
             FullTurn * ParkerScale(u))

(***************************************************************************)
(* Pairwise classifier: the if/elif chain of check_geometry.               *)
(***************************************************************************)
\* Condition whose quadrature branch compares the longitudes with pi.
ConditionQuadratureSlip(g, mode, arb, u, lon1, lat1, r1, lon2, lat2, r2) ==
    CASE mode = "opposition" ->
            IsClose(Abs(lon1 - lon2), HalfTurn, g.tolerance)
      [] mode = "cone" ->
            Abs(lon1 - lon2) <= g.cone_width
      [] mode = "quadrature" ->
            \/ IsClose(Abs(lon1 - lon2), HalfTurn, g.tolerance)
            \/ IsClose(Abs(lat1 - lat2), HalfTurn \div 2, g.tolerance)
      [] mode = "arbitrary" /\ arb # <<>> ->
            IsClose(Abs(lon1 - lon2), arb[1], g.tolerance)
      [] mode = "parker" ->
            /\ IsClose(parker_spiral_function(r1, lon1, u),
                       parker_spiral_function(r2, lon2, u),
                       ToleranceParker * ParkerScale(u))
            /\ IsClose(lat1, lat2, g.tolerance)
      [] mode = "coneparker" ->
            /\ Abs(lon1 - lon2) <= g.cone_width
            /\ IsClose(parker_spiral_function(r1, lon1, u),
                       parker_spiral_function(r2, lon2, u),
                       ToleranceParker * ParkerScale(u))
            /\ IsClose(lat1, lat2, g.tolerance)
      [] OTHER -> FALSE

Condition(g, mode, arb, u, lon1, lat1, r1, lon2, lat2, r2) ==
    CASE mode = "opposition" ->
            IsClose(Abs(lon1 - lon2), HalfTurn, g.tolerance)
      [] mode = "cone" ->
            Abs(lon1 - lon2) <= g.cone_width
      [] mode = "quadrature" ->
            \/ IsClose(Abs(lon1 - lon2), HalfTurn \div 2, g.tolerance)
            \/ IsClose(Abs(lat1 - lat2), HalfTurn \div 2, g.tolerance)
      [] mode = "arbitrary" /\ arb # <<>> ->
            IsClose(Abs(lon1 - lon2), arb[1], g.tolerance)
      [] mode = "parker" ->
            /\ IsClose(parker_spiral_function(r1, lon1, u),
                       parker_spiral_function(r2, lon2, u),
                       ToleranceParker * ParkerScale(u))
            /\ IsClose(lat1, lat2, g.tolerance)
      [] mode = "coneparker" ->
            /\ Abs(lon1 - lon2) <= g.cone_width
            /\ IsClose(parker_spiral_function(r1, lon1, u),
                       parker_spiral_function(r2, lon2, u),
                       ToleranceParker * ParkerScale(u))
            /\ IsClose(lat1, lat2, g.tolerance)
      [] OTHER -> FALSE

\* ConditionSpatialItems whose arbitrary branch takes a missing angle as 0.
ConditionSpatialItemsAngleZero(g, mode, arb, u, lon1, r1, lon2, r2) ==
    CASE mode = "opposition" ->
            IsClose(Abs(lon1 - lon2), HalfTurn, g.tolerance)
      [] mode = "cone" ->
            Abs(lon1 - lon2) <= g.cone_width
      [] mode = "quadrature" ->
            IsClose(Abs(lon1 - lon2), HalfTurn \div 2, g.tolerance)
      [] mode = "arbitrary" ->
            IsClose(Abs(lon1 - lon2), IF arb = <<>> THEN 0 ELSE arb[1], g.tolerance)
      [] mode = "parker" ->
            IsClose(parker_spiral_function(r1, lon1, u),
                    parker_spiral_function(r2, lon2, u),
                    ToleranceParker * ParkerScale(u))
      [] mode = "coneparker" ->
            /\ Abs(lon1 - lon2) <= g.cone_width
            /\ IsClose(parker_spiral_function(r1, lon1, u),
                       parker_spiral_function(r2, lon2, u),
                       ToleranceParker * ParkerScale(u))
      [] OTHER -> FALSE

\* The if/elif chain of solarconflux/spatialitems/geometries.py: no latitude.
ConditionSpatialItems(g, mode, arb, u, lon1, r1, lon2, r2) ==
    CASE mode = "opposition" ->
            IsClose(Abs(lon1 - lon2), HalfTurn, g.tolerance)
      [] mode = "cone" ->
            Abs(lon1 - lon2) <= g.cone_width
      [] mode = "quadrature" ->
            IsClose(Abs(lon1 - lon2), HalfTurn \div 2, g.tolerance)
      [] mode = "arbitrary" /\ arb # <<>> ->
            IsClose(Abs(lon1 - lon2), arb[1], g.tolerance)
      [] mode = "parker" ->
            IsClose(parker_spiral_function(r1, lon1, u),
                    parker_spiral_function(r2, lon2, u),
                    ToleranceParker * ParkerScale(u))
      [] mode = "coneparker" ->
            /\ Abs(lon1 - lon2) <= g.cone_width
            /\ IsClose(parker_spiral_function(r1, lon1, u),
                       parker_spiral_function(r2, lon2, u),
                       ToleranceParker * ParkerScale(u))
      [] OTHER -> FALSE

\* Aligned that reads the second body at the first timestep.
AlignedFirstStep(g, traj, mode, arb, u, s, name1, name2) ==
    LET i1 == IndexOf(traj, name1)
        i2 == IndexOf(traj, name2)
    IN IF ClassHasLatitudes(g.class)
       THEN Condition(g, mode, arb, u,
                      g.angles[s][i1], g.latitudes[s][i1], traj[i1].coords[s].r,
                      g.angles[1][i2], g.latitudes[1][i2], traj[i2].coords[1].r)
       ELSE ConditionSpatialItems(g, mode, arb, u,
                                  g.angles[s][i1], traj[i1].coords[s].r,
                                  g.angles[1][i2], traj[i2].coords[1].r)

\* The pairwise decision for two bodies of the trajectories at timestep s.
Aligned(g, traj, mode, arb, u, s, name1, name2) ==
    LET i1 == IndexOf(traj, name1)
        i2 == IndexOf(traj, name2)
    IN IF ClassHasLatitudes(g.class)
       THEN Condition(g, mode, arb, u,
                      g.angles[s][i1], g.latitudes[s][i1], traj[i1].coords[s].r,
                      g.angles[s][i2], g.latitudes[s][i2], traj[i2].coords[s].r)
       ELSE ConditionSpatialItems(g, mode, arb, u,
                                  g.angles[s][i1], traj[i1].coords[s].r,
                                  g.angles[s][i2], traj[i2].coords[s].r)

\* A pair is evaluated in parker or coneparker mode with u_sw = 0.
StepRaises(traj, mode, u) ==
    /\ mode \in {"parker", "coneparker"}
    /\ ParkerRaises(u)
    /\ Len(traj) >= 2

(***************************************************************************)
(* Group builder.                                                          *)
(***************************************************************************)
\* AnchorGroup that keeps a body only if it is aligned with every member.
AnchorGroupMutual(g, traj, mode, arb, u, s, anchor) ==
    LET direct == {b \in SeqToSet(Names(traj)) \ {anchor} :
                      Aligned(g, traj, mode, arb, u, s, anchor, b)}
    IN {anchor} \cup {b \in direct :
                         \A c \in direct \ {b} : Aligned(g, traj, mode, arb, u, s, b, c)}

\* group = {spacecraft1} plus every other body the classifier accepts.
AnchorGroup(g, traj, mode, arb, u, s, anchor) ==
    {anchor} \cup {b \in SeqToSet(Names(traj)) \ {anchor} :
                      Aligned(g, traj, mode, arb, u, s, anchor, b)}

\* KeepGroup without the rule on pairs with the Sun.
KeepGroupAnyPair(group) == Cardinality(group) > 1

\* len(group) > 1 and not (len(group) == 2 and 'Sun' in group)
KeepGroup(group) ==
    /\ Cardinality(group) > 1
    /\ ~(Cardinality(group) = 2 /\ "Sun" \in group)

RECURSIVE GroupsFrom(_, _, _, _, _, _, _)
GroupsFrom(g, traj, mode, arb, u, s, i) ==
    IF i > Len(traj) THEN <<>>
    ELSE LET group == AnchorGroup(g, traj, mode, arb, u, s, traj[i].name)
         IN (IF KeepGroup(group) THEN <<SortedTuple(group)>> ELSE <<>>)
            \o GroupsFrom(g, traj, mode, arb, u, s, i + 1)

\* The list `groups` of timestep s, one entry per anchor that keeps its group.
Groups(g, traj, mode, arb, u, s) == GroupsFrom(g, traj, mode, arb, u, s, 1)

(***************************************************************************)
(* Interval tracker.                                                       *)
(***************************************************************************)
Keys(d) == {d[i].group : i \in 1..Len(d)}

\* Lookup that returns the last value of the dict whatever the key.
LookupLast(d, group) == d[Len(d)]

\* d[group]
Lookup(d, group) == d[CHOOSE i \in 1..Len(d) : d[i].group = group]

\* DictSet on a list of entries instead of a dict.
DictSetAppend(d, entry) == Append(d, entry)

\* new_active_groups[group] = value: an existing key keeps its place.
DictSet(d, entry) ==
    IF entry.group \in Keys(d)
    THEN [i \in 1..Len(d) |-> IF d[i].group = entry.group THEN entry ELSE d[i]]
    ELSE Append(d, entry)

\* TrackEntry that opens a new interval at every timestep.
TrackEntryRestart(active, group, date) ==
    [group |-> group, start_date |-> date, end_date |-> date]

\* The value stored for one group of the current timestep.
TrackEntry(active, group, date) ==
    IF group \in Keys(active)
    THEN [group |-> group, start_date |-> Lookup(active, group).start_date,
          end_date |-> date]
    ELSE [group |-> group, start_date |-> date, end_date |-> date]

RECURSIVE NewActiveFrom(_, _, _, _)
NewActiveFrom(groups, active, date, i) ==
    IF i = 0 THEN <<>>
    ELSE DictSet(NewActiveFrom(groups, active, date, i - 1),
                 TrackEntry(active, groups[i], date))

\* NewActiveGroups that leaves the intervals of absent groups open.
NewActiveGroupsCarried(groups, active, date) ==
    LET fresh == NewActiveFrom(groups, active, date, Len(groups))
    IN SelectSeq(active, LAMBDA a : a.group \notin Keys(fresh)) \o fresh

\* new_active_groups after the loop over groups.
NewActiveGroups(groups, active, date) ==
    NewActiveFrom(groups, active, date, Len(groups))

\* EntryOf with the two timestamps in each other's place.
EntryOfSwapped(a) ==
    [start |-> Strftime(a.end_date), end |-> Strftime(a.start_date),
     group |-> a.group]

\* The tuple appended to matching_entries for one interval.
EntryOf(a) ==
    [start |-> Strftime(a.start_date), end |-> Strftime(a.end_date),
     group |-> a.group]

RECURSIVE EndedFrom(_, _, _)
EndedFrom(active, new_active, i) ==
    IF i > Len(active) THEN <<>>
    ELSE (IF active[i].group \notin Keys(new_active)
          THEN <<EntryOf(active[i])>> ELSE <<>>)
         \o EndedFrom(active, new_active, i + 1)

\* Records of the intervals of active_groups that are not in new_active_groups.
EndedEntries(active, new_active) == EndedFrom(active, new_active, 1)

\* FlushEntries of a scan that returns right after the loop.
FlushEntriesNone(active) == <<>>

\* Records of the intervals still open after the last timestep.
FlushEntries(active) == [i \in 1..Len(active) |-> EntryOf(active[i])]

\* The timestamp check_geometry reads for timestep s: the first body's.
DateOf(traj, s) == traj[1].coords[s].date

(***************************************************************************)
(* matching_dates.                                                         *)
(***************************************************************************)
\* mode in ['opposition', 'cone', 'quadrature', 'arbitrary', 'parker', 'coneparker']
IsRecognized(m) == \E i \in 1..Len(RecognizedModes) : RecognizedModes[i] = m

\* The mode string check_geometry receives: mode.lower().
CurrentMode == Lower(geometry_choices[mode_idx])

\* StoreResult without the test on matches.
StoreResultAlways(all, m, matches) ==
    [k \in DOMAIN all \cup {m} |-> IF k = m THEN matches ELSE all[k]]

\* if matches: all_matching_entries[mode] = matches
StoreResult(all, m, matches) ==
    IF matches # <<>>
    THEN [k \in DOMAIN all \cup {m} |-> IF k = m THEN matches ELSE all[k]]
    ELSE all

\* The line printed for a scanned mode (its mode and its number of matches).
PrintLine(m, matches) == [mode |-> m, matches |-> Len(matches)]

(***************************************************************************)
(* save_match: the mapping of matching_dates written to one CSV file.      *)
(***************************************************************************)
\* The keys of the returned dict in insertion order: each stored mode at its
\* first place in geometry_choices.
RECURSIVE KeyOrderFrom(_, _, _)
KeyOrderFrom(choices, all, i) ==
    IF i > Len(choices) THEN <<>>
    ELSE IF /\ choices[i] \in DOMAIN all
            /\ \A j \in 1..(i - 1) : choices[j] # choices[i]
         THEN <<choices[i]>> \o KeyOrderFrom(choices, all, i + 1)
         ELSE KeyOrderFrom(choices, all, i + 1)

KeyOrder(choices, all) == KeyOrderFrom(choices, all, 1)

\* (start, end, geom, group) for one record of mode geom.
Row(geom, entry) ==
    [start |-> entry.start, end |-> entry.end, geom |-> geom, group |-> entry.group]

\* The list comprehension: for geom, entries in items() for entry in entries.
RECURSIVE CombinedFrom(_, _, _)
CombinedFrom(all, keys, k) ==
    IF k > Len(keys) THEN <<>>
    ELSE [i \in 1..Len(all[keys[k]]) |-> Row(keys[k], all[keys[k]][i])]
            \o CombinedFrom(all, keys, k + 1)

Combined(all, keys) == CombinedFrom(all, keys, 1)

\* The place of a row in a list sorted by start: after every row whose start
\* is not later (sorted is stable).
RECURSIVE InsertByStart(_, _)
InsertByStart(sorted, row) ==
    IF sorted = <<>> THEN <<row>>
    ELSE IF sorted[Len(sorted)].start <= row.start
         THEN Append(sorted, row)
         ELSE Append(InsertByStart(SubSeq(sorted, 1, Len(sorted) - 1), row),
                     sorted[Len(sorted)])

RECURSIVE SortedByStartFrom(_, _)
SortedByStartFrom(rows, n) ==
    IF n = 0 THEN <<>>
    ELSE InsertByStart(SortedByStartFrom(rows, n - 1), rows[n])

\* The rows left in the order of the comprehension.
SortedByStartSkipped(rows) == rows

\* sorted(combined, key=lambda x: x[0])
SortedByStart(rows) == SortedByStartFrom(rows, Len(rows))

\* stamp[:10], the date part of a formatted timestamp: the whole days in it.
DatePart(stamp) == stamp \div (24 * 60 * 60)

HeaderRow == <<"start_date", "end_date", "geometry", "spacecrafts">>

\* Nothing written yet.
NotSaved == [folder |-> <<>>, header |-> <<>>, rows |-> <<>>, message |-> ""]

\* The folder named after the first start and the last end, the header and
\* the sorted rows of the CSV file, and the message printed.
save_match(all, keys) ==
    LET sorted_combined == SortedByStart(Combined(all, keys))
    IN IF sorted_combined # <<>>
       THEN [folder |-> <<DatePart(sorted_combined[1].start),
                          DatePart(sorted_combined[Len(sorted_combined)].end)>>,
             header |-> HeaderRow,
             rows |-> sorted_combined,
             message |-> "Matching entries saved."]
       ELSE [folder |-> <<>>, header |-> <<>>, rows |-> <<>>,
             message |-> "No entries to save."]

(***************************************************************************)
(* Inputs.                                                                 *)
(***************************************************************************)
Pos(lon, lat, r) == [lon |-> lon, lat |-> lat, r |-> r]

\* The Sun sits at the origin of the heliocentric frame.
SunPos == Pos(0, 0, 0)

Cfg(a, b, c) == [A |-> a, B |-> b, C |-> c, Sun |-> SunPos]

\* No pair of spacecraft aligned in opposition, cone or quadrature.
CfgQuiet == Cfg(Pos(0, 0, 150000), Pos(40, 0, 150000), Pos(300, 0, 150000))
\* A opposite B, C in quadrature with both.
CfgOpposed == Cfg(Pos(0, 0, 150000), Pos(180, 0, 150000), Pos(90, 0, 150000))
\* B within the cone of A and of C, A and C outside each other's cone.
CfgChain == Cfg(Pos(0, 0, 150000), Pos(8, 0, 150000), Pos(16, 0, 150000))
\* A and B both opposite the Sun's longitude.
CfgSunTriple == Cfg(Pos(180, 0, 150000), Pos(180, 0, 150000), Pos(90, 0, 150000))
\* A and B separated by 10 degrees across the 0/360 boundary.
CfgWrap == Cfg(Pos(355, 0, 150000), Pos(5, 0, 150000), Pos(90, 0, 150000))
\* A and B at one longitude, latitudes 90 degrees apart.
CfgLatitude == Cfg(Pos(0, 0, 150000), Pos(0, 90, 150000), Pos(40, 0, 150000))
\* A and B on one Parker spiral (30 degrees apart in longitude).
CfgSpiral == Cfg(Pos(0, 0, 150000), Pos(30, 0, 77000), Pos(200, 0, 150000))

\* A, B and C at one longitude, A and C each 8 degrees of latitude from B.
CfgLatSpread == Cfg(Pos(0, 8, 150000), Pos(0, 0, 150000), Pos(0, 0 - 8, 150000))
\* A and B with footpoints just over 5 degrees apart.
CfgEdge == Cfg(Pos(20, 0, 150000), Pos(25, 0, 150002), Pos(200, 0, 150000))

ConfigSet ==
    {CfgQuiet, CfgOpposed, CfgChain, CfgSunTriple, CfgWrap, CfgLatitude, CfgSpiral,
     CfgLatSpread, CfgEdge}

\* The configurations the timelines of several timesteps are made of.
TimelineConfigs == {CfgQuiet, CfgOpposed, CfgChain, CfgSunTriple}

\* Ticks between two timesteps of the one-minute cadence.
Minute == 60 * TicksPerSecond

SeqsUpTo(S, n) == UNION {[1..k -> S] : k \in 1..n}

\* The trajectories dict: bodies in insertion order, every body sampled at
\* the timestamps dates[s] with the positions cfgs[s].
MakeTrajectories(order, cfgs, dates) ==
    [i \in 1..Len(order) |->
        [name   |-> order[i],
         coords |-> [s \in 1..Len(cfgs) |->
                        [date |-> dates[s], lon |-> cfgs[s][order[i]].lon,
                         lat |-> cfgs[s][order[i]].lat, r |-> cfgs[s][order[i]].r]]]]

Timeline(n, cadence) == [s \in 1..n |-> s * cadence]

\* Every timeline of up to MaxSteps configurations, four bodies, one sample
\* a minute.
GridTrajectories ==
    {MakeTrajectories(<<"C", "Sun", "A", "B">>, cfgs, Timeline(Len(cfgs), Minute)) :
        cfgs \in SeqsUpTo(TimelineConfigs, MaxSteps)}

\* Timelines sampled once a tick: several timesteps fall in one second.
SubSecondTrajectories ==
    {MakeTrajectories(<<"C", "Sun", "A", "B">>, cfgs, Timeline(Len(cfgs), 1)) :
        cfgs \in SeqsUpTo({CfgQuiet, CfgOpposed}, MaxSteps)}

\* Every configuration at a single timestep.
SingleStepTrajectories ==
    {MakeTrajectories(<<"C", "Sun", "A", "B">>, <<cfg>>, Timeline(1, Minute)) :
        cfg \in ConfigSet}

\* Three bodies A, B, C at longitudes 0, 180, 90 at a single timestep.
ScenarioTrajectories ==
    MakeTrajectories(<<"A", "B", "C">>, <<CfgOpposed>>, Timeline(1, Minute))

\* A opposite B at t1..t5, not at t6, again at t7..t9.
MergeLawTrajectories ==
    MakeTrajectories(<<"A", "B", "C">>,
        <<CfgOpposed, CfgOpposed, CfgOpposed, CfgOpposed, CfgOpposed,
          CfgQuiet, CfgOpposed, CfgOpposed, CfgOpposed>>,
        Timeline(9, Minute))

PairTrajectories ==
    MakeTrajectories(<<"C", "Sun", "A", "B">>, <<CfgChain, CfgSunTriple>>,
                     Timeline(2, Minute))

\* Trajectory i cut to its first n samples.
Truncate(traj, i, n) ==
    [traj EXCEPT ![i].coords = SubSeq(traj[i].coords, 1, n)]

\* Trajectory i with every timestamp moved by d ticks.
ShiftDates(traj, i, d) ==
    [traj EXCEPT ![i].coords =
        [s \in 1..Len(traj[i].coords) |->
            [traj[i].coords[s] EXCEPT !.date = traj[i].coords[s].date + d]]]

ShapeBase ==
    {MakeTrajectories(<<"C", "Sun", "A", "B">>, cfgs, Timeline(2, Minute)) :
        cfgs \in {<<CfgOpposed, CfgOpposed>>, <<CfgChain, CfgQuiet>>}}

\* Trajectories of unequal length, or whose timestamps differ across bodies.
MismatchedTrajectories ==
    {Truncate(t, i, 1) : t \in ShapeBase, i \in 1..4}
    \cup {ShiftDates(t, i, d) : t \in ShapeBase, i \in 1..4, d \in {1, Minute}}

ModeSet == {RecognizedModes[i] : i \in 1..Len(RecognizedModes)}

\* The mode strings the lists of several requested modes are made of.
ListedModes ==
    {"opposition", "cone", "parker", "coneparker", "Opposition", "conjunction"}

\* One recognized mode scanned with the default wind speed; the arbitrary
\* angle, read by the arbitrary mode only, is absent or 40 degrees.
SingleMode(trajs) ==
    {x \in [traj : trajs, choices : {<<m>> : m \in ModeSet},
            u : {DefaultSolarWind}, arb : {<<>>, <<40>>}] :
        x.arb = <<>> \/ x.choices[1] = "arbitrary"}

GridInputs ==
    SingleMode(GridTrajectories \cup SingleStepTrajectories
                 \cup {ScenarioTrajectories, MergeLawTrajectories})

SubSecondInputs ==
    [traj : SubSecondTrajectories, choices : {<<"opposition">>},
     u : {DefaultSolarWind}, arb : {<<>>}]

\* Lists of requested mode strings with every sign of the wind speed.
OrchestrationInputs ==
    [traj : {ScenarioTrajectories, PairTrajectories},
     choices : SeqsUpTo(ListedModes, MaxChoices),
     u : {0 - DefaultSolarWind, 0, DefaultSolarWind}, arb : {<<>>}]

ShapeInputs ==
    [traj : MismatchedTrajectories, choices : {<<"opposition">>, <<"cone">>},
     u : {DefaultSolarWind}, arb : {<<>>}]

\* The scans run on the Geometry class of solarconflux/geometries.py, the one
\* solarconflux/functions.py imports.
MainInputs == GridInputs \cup SubSecondInputs \cup OrchestrationInputs \cup ShapeInputs

\* The scans run on the Geometry class of solarconflux/spatialitems/geometries.py.
SpatialItemsInputs ==
    SingleMode(SingleStepTrajectories \cup {ScenarioTrajectories, PairTrajectories})

\* Tolerances other than the default: a quarter turn and a negative one.
OtherTolerances == {HalfTurn \div 2, 0 - 1}

\* Single scans of either class with a tolerance other than the default.
ToleranceInputs == SingleMode(SingleStepTrajectories \cup {PairTrajectories})

Inputs ==
    {[input |-> x, class |-> "solarconflux.geometries",
      tolerance |-> DefaultTolerance] : x \in MainInputs}
    \cup {[input |-> x, class |-> "solarconflux.spatialitems.geometries",
           tolerance |-> DefaultTolerance] : x \in SpatialItemsInputs}
    \cup [input : ToleranceInputs, class : GeometryClasses, tolerance : OtherTolerances]

(***************************************************************************)
(* Initial state: matching_dates has been called with its arguments.       *)
(***************************************************************************)
Init ==
    /\ \E x \in Inputs :
          /\ trajectories = x.input.traj
          /\ geometry_choices = x.input.choices
          /\ u_sw = x.input.u
          /\ arbitrary_angle = x.input.arb
          /\ geometry_class = x.class
          /\ tolerance = x.tolerance
    /\ geometry = NoGeometry
    /\ pc = "start"
    /\ mode_idx = 1
    /\ step = 0
    /\ active_groups = <<>>
    /\ matching_entries = <<>>
    /\ all_matching_entries = <<>>
    /\ printed = <<>>
    /\ exception = "none"
    /\ saved = NotSaved

(***************************************************************************)
(* Actions.                                                                *)
(***************************************************************************)
\* geometry = Geometry(spacecraft_names, trajectories, frame, cone_width, tolerance)
Construct ==
    /\ pc = "start"
    /\ ~CalculateAnglesRaises(trajectories)
    /\ geometry' = NewGeometry(trajectories)
    /\ pc' = "loop"
    /\ UNCHANGED <<inputs, mode_idx, step, active_groups, matching_entries,
                   all_matching_entries, printed, exception, saved>>

\* calculate_angles indexes past the end of a trajectory.
ConstructRaises ==
    /\ pc = "start"
    /\ CalculateAnglesRaises(trajectories)
    /\ pc' = "raised"
    /\ exception' = "IndexError"
    /\ UNCHANGED <<inputs, geometry, mode_idx, step, active_groups,
                   matching_entries, all_matching_entries, printed, saved>>

\* The open intervals of the scan before carried into the next call.
ActiveGroupsKept == active_groups

\* active_groups = {} at the head of check_geometry.
ActiveGroupsAtEntry == <<>>

\* A recognized mode: geometry.check_geometry(mode=mode.lower(), ...) is entered.
CallCheckGeometry ==
    /\ pc = "loop"
    /\ mode_idx <= Len(geometry_choices)
    /\ IsRecognized(geometry_choices[mode_idx])
    /\ pc' = "scan"
    /\ step' = 0
    /\ active_groups' = ActiveGroupsAtEntry
    /\ matching_entries' = <<>>
    /\ UNCHANGED <<inputs, geometry, mode_idx, all_matching_entries, printed,
                   exception, saved>>

\* A mode string outside the list: the loop body does nothing.
SkipMode ==
    /\ pc = "loop"
    /\ mode_idx <= Len(geometry_choices)
    /\ ~IsRecognized(geometry_choices[mode_idx])
    /\ mode_idx' = mode_idx + 1
    /\ UNCHANGED <<inputs, geometry, pc, step, active_groups, matching_entries,
                   all_matching_entries, printed, exception, saved>>

\* One iteration of `for step in range(num_steps)`.
ScanStep ==
    /\ pc = "scan"
    /\ step < NumSteps(trajectories)
    /\ ~StepRaises(trajectories, CurrentMode, u_sw)
    /\ LET s == step + 1
           date == DateOf(trajectories, s)
           groups == Groups(geometry, trajectories, CurrentMode, arbitrary_angle,
                            u_sw, s)
           new_active_groups == NewActiveGroups(groups, active_groups, date)
       IN /\ matching_entries' =
                matching_entries \o EndedEntries(active_groups, new_active_groups)
          /\ active_groups' = new_active_groups
    /\ step' = step + 1
    /\ UNCHANGED <<inputs, geometry, pc, mode_idx, all_matching_entries, printed,
                   exception, saved>>

\* parker_spiral_function divides by a zero wind speed: the exception leaves
\* check_geometry and matching_dates.
ScanStepRaises ==
    /\ pc = "scan"
    /\ step < NumSteps(trajectories)
    /\ StepRaises(trajectories, CurrentMode, u_sw)
    /\ pc' = "raised"
    /\ exception' = "ZeroDivisionError"
    /\ UNCHANGED <<inputs, geometry, mode_idx, step, active_groups,
                   matching_entries, all_matching_entries, printed, saved>>

\* After the last timestep: the open intervals are appended and
\* check_geometry returns matching_entries.
Flush ==
    /\ pc = "scan"
    /\ step = NumSteps(trajectories)
    /\ matching_entries' = matching_entries \o FlushEntries(active_groups)
    /\ pc' = "returned"
    /\ UNCHANGED <<inputs, geometry, mode_idx, step, active_groups,
                   all_matching_entries, printed, exception, saved>>

\* matches = geometry.check_geometry(...); the if/else on matches.
StoreMatches ==
    /\ pc = "returned"
    /\ all_matching_entries' =
          StoreResult(all_matching_entries, geometry_choices[mode_idx], matching_entries)
    /\ printed' = Append(printed, PrintLine(geometry_choices[mode_idx], matching_entries))
    /\ mode_idx' = mode_idx + 1
    /\ pc' = "loop"
    /\ UNCHANGED <<inputs, geometry, step, active_groups, matching_entries,
                   exception, saved>>

\* return all_matching_entries
Return ==
    /\ pc = "loop"
    /\ mode_idx > Len(geometry_choices)
    /\ pc' = "done"
    /\ UNCHANGED <<inputs, geometry, mode_idx, step, active_groups,
                   matching_entries, all_matching_entries, printed, exception, saved>>

\* save_match(match, base_path), called on the mapping matching_dates returned.
SaveMatch ==
    /\ pc = "done"
    /\ saved' = save_match(all_matching_entries, KeyOrder(geometry_choices, all_matching_entries))
    /\ pc' = "saved"
    /\ UNCHANGED <<inputs, geometry, mode_idx, step, active_groups,
                   matching_entries, all_matching_entries, printed, exception>>

Next ==
    \/ Construct
    \/ ConstructRaises
    \/ CallCheckGeometry
    \/ SkipMode
    \/ ScanStep
    \/ ScanStepRaises
    \/ Flush
    \/ StoreMatches
    \/ Return
    \/ SaveMatch

Spec == Init /\ [][Next]_vars

TypeOK ==
    /\ pc \in {"start", "loop", "scan", "returned", "done", "saved", "raised"}
    /\ geometry_class \in GeometryClasses
    /\ exception \in {"none", "IndexError", "ZeroDivisionError"}
    /\ step \in 0..NumSteps(trajectories)
    /\ mode_idx \in 1..(Len(geometry_choices) + 1)

(***************************************************************************)
(* Definitions shared by the properties.                                   *)
(***************************************************************************)
\* A scan of the current mode is under way or has just returned.
InScan == pc \in {"scan", "returned"}

\* The scan computes its group sets (it is not about to divide by zero).
ScanDefined == InScan /\ ~StepRaises(trajectories, CurrentMode, u_sw)

\* The set of canonical groups of timestep s under the current mode.
GroupSetAt(s) ==
    SeqToSet(Groups(geometry, trajectories, CurrentMode, arbitrary_angle, u_sw, s))

RECURSIVE GroupSetsFrom(_)
GroupSetsFrom(s) ==
    IF s > NumSteps(trajectories) THEN <<>>
    ELSE <<GroupSetAt(s)>> \o GroupSetsFrom(s + 1)

\* The group sets of all timesteps, in timestep order.
GroupSets == GroupSetsFrom(1)

\* a..b is a maximal run of consecutive timesteps at which G is present,
\* gs being the group sets of the timeline.
IsMaximalRun(gs, G, a, b) ==
    /\ a <= b
    /\ \A s \in a..b : G \in gs[s]
    /\ a = 1 \/ G \notin gs[a - 1]
    /\ b = Len(gs) \/ G \notin gs[b + 1]

MaximalRuns(gs) ==
    {run \in (UNION SeqToSet(gs)) \X (1..Len(gs)) \X (1..Len(gs)) :
        IsMaximalRun(gs, run[1], run[2], run[3])}

\* The runs whose record is due: over by the last processed timestep, or any
\* run once check_geometry has returned.
DueRuns(gs) == {run \in MaximalRuns(gs) : run[3] < step \/ pc = "returned"}

RunRecord(run) ==
    [start |-> Strftime(DateOf(trajectories, run[2])),
     end   |-> Strftime(DateOf(trajectories, run[3])),
     group |-> run[1]]

Count(seq, x) == Cardinality({i \in 1..Len(seq) : seq[i] = x})

\* Consecutive timesteps are at least one second apart.
WholeSecondTimeline ==
    \A s \in 1..(NumSteps(trajectories) - 1) :
        DateOf(trajectories, s + 1) - DateOf(trajectories, s) >= TicksPerSecond

\* C1: at every point of a scan, in every mode, the records emitted so far
\* are exactly one record per maximal run of consecutive timesteps at which
\* the group is present and which is over (every run once the scan has
\* returned), with start and end the timestamps of the run's first and last
\* step; records of one group never overlap on a timeline of distinct
\* seconds; the group present at t1..t5, absent at t6 and present at t7..t9
\* yields the two records (t1,t5) and (t7,t9).
C1_OneRecordPerMaximalRun ==
    ScanDefined =>
        /\ LET due == DueRuns(GroupSets)
           IN \A rec \in SeqToSet(matching_entries) \cup {RunRecord(run) : run \in due} :
                 Count(matching_entries, rec)
                    = Cardinality({run \in due : RunRecord(run) = rec})
        /\ WholeSecondTimeline =>
              \A i, j \in 1..Len(matching_entries) :
                 (i # j /\ matching_entries[i].group = matching_entries[j].group)
                    => \/ matching_entries[i].end < matching_entries[j].start
                       \/ matching_entries[j].end < matching_entries[i].start
        /\ (trajectories = MergeLawTrajectories /\ CurrentMode = "opposition"
              /\ pc = "returned")
              => matching_entries =
                   <<[start |-> Strftime(DateOf(trajectories, 1)),
                      end |-> Strftime(DateOf(trajectories, 5)), group |-> <<"A", "B">>],
                     [start |-> Strftime(DateOf(trajectories, 7)),
                      end |-> Strftime(DateOf(trajectories, 9)), group |-> <<"A", "B">>]>>

\* A scan has returned in which one group had two separate runs.
C1_Witness ==
    /\ pc = "returned"
    /\ ~StepRaises(trajectories, CurrentMode, u_sw)
    /\ LET runs == MaximalRuns(GroupSets)
       IN /\ \E r1, r2 \in runs : r1[1] = r2[1] /\ r1[3] + 1 < r2[2]
          /\ \E r \in runs : r[2] < r[3]

\* The openings of intervals in the first n timesteps: the pairs of a group
\* and a timestep at which the group is present and was not at the one before.
Openings(gs, n) ==
    {o \in (UNION SeqToSet(gs)) \X (1..n) :
        /\ o[1] \in gs[o[2]]
        /\ o[2] = 1 \/ o[1] \notin gs[o[2] - 1]}

\* C2: no interval is lost or emitted twice: during the scan the emitted
\* records and the open intervals together are as many as the intervals
\* opened so far; when check_geometry returns, every opened interval has
\* exactly one record, and the intervals open after the last timestep are
\* the last records, each ending at the final timestep's timestamp.
C2_FinalFlush ==
    ScanDefined =>
        LET gs == GroupSets
            opened == Openings(gs, step)
        IN /\ pc = "scan" =>
                 Len(matching_entries) + Len(active_groups) = Cardinality(opened)
           /\ pc = "returned" =>
                 /\ Len(matching_entries) = Cardinality(opened)
                 /\ \A o \in opened :
                       Cardinality({i \in 1..Len(matching_entries) :
                                      /\ matching_entries[i].group = o[1]
                                      /\ matching_entries[i].start
                                           = Strftime(DateOf(trajectories, o[2]))})
                         = Cardinality({o2 \in opened :
                                      /\ o2[1] = o[1]
                                      /\ Strftime(DateOf(trajectories, o2[2]))
                                           = Strftime(DateOf(trajectories, o[2]))})
                 /\ Len(active_groups) <= Len(matching_entries)
                 /\ \A i \in 1..Len(active_groups) :
                       LET rec == matching_entries[Len(matching_entries)
                                                     - Len(active_groups) + i]
                       IN /\ rec.group = active_groups[i].group
                          /\ rec.start = Strftime(active_groups[i].start_date)
                          /\ rec.end
                               = Strftime(DateOf(trajectories, NumSteps(trajectories)))

\* A scan has returned with intervals closed during the scan and intervals
\* that were still open after the last timestep.
C2_Witness ==
    /\ pc = "returned"
    /\ active_groups # <<>>
    /\ Len(matching_entries) > Len(active_groups)

\* Every group held by the scan or by the result of matching_dates.
HeldGroups ==
    Keys(active_groups)
    \cup {matching_entries[i].group : i \in 1..Len(matching_entries)}
    \cup UNION {{all_matching_entries[m][i].group :
                    i \in 1..Len(all_matching_entries[m])} :
                m \in DOMAIN all_matching_entries}

\* C3: every group of an open interval or of a record has at least 2 bodies
\* and is not a pair one of which is 'Sun'; a group of 'Sun' and 2 or more
\* other bodies found at the timestep just processed is an open interval.
C3_GroupFilter ==
    /\ \A G \in HeldGroups :
          /\ Len(G) >= 2
          /\ ~(Len(G) = 2 /\ "Sun" \in SeqToSet(G))
    /\ (pc = "scan" /\ step >= 1 /\ ~StepRaises(trajectories, CurrentMode, u_sw)) =>
          \A a \in SeqToSet(Names(trajectories)) :
             LET members == {a} \cup
                    {b \in SeqToSet(Names(trajectories)) \ {a} :
                        Aligned(geometry, trajectories, CurrentMode, arbitrary_angle,
                                u_sw, step, a, b)}
             IN ("Sun" \in members /\ Cardinality(members) >= 3)
                   => \E G \in Keys(active_groups) : SeqToSet(G) = members

\* At the timestep just processed an anchor is aligned with the Sun only,
\* and an open interval holds the Sun with two other bodies.
C3_Witness ==
    /\ pc = "scan" /\ step >= 1
    /\ ~StepRaises(trajectories, CurrentMode, u_sw)
    /\ \E G \in Keys(active_groups) : "Sun" \in SeqToSet(G) /\ Len(G) >= 3
    /\ \E a \in SeqToSet(Names(trajectories)) \ {"Sun"} :
          /\ Aligned(geometry, trajectories, CurrentMode, arbitrary_angle, u_sw,
                     step, a, "Sun")
          /\ \A b \in SeqToSet(Names(trajectories)) \ {a, "Sun"} :
                ~Aligned(geometry, trajectories, CurrentMode, arbitrary_angle, u_sw,
                         step, a, b)

\* The bodies of the scan.
Bodies == SeqToSet(Names(trajectories))

\* The pairwise decision at timestep s under the current mode.
AlignedAt(s, a, b) ==
    Aligned(geometry, trajectories, CurrentMode, arbitrary_angle, u_sw, s, a, b)

\* The anchor together with every other body the pairwise condition accepts.
Neighbours(s, a) == {a} \cup {b \in Bodies \ {a} : AlignedAt(s, a, b)}

\* C4: after each timestep the open intervals are exactly the per-anchor
\* groups of that timestep, each anchor with every body directly aligned with
\* it, that have 2 or more bodies and are not a pair with the Sun; nothing is
\* closed transitively and nothing is split: when A-B and A-C hold and B-C
\* does not, the group of anchor A holding A, B and C is one open interval.
C4_AnchorCentricGroups ==
    (pc = "scan" /\ step >= 1 /\ ~StepRaises(trajectories, CurrentMode, u_sw)) =>
        /\ {SeqToSet(G) : G \in Keys(active_groups)}
              = {Neighbours(step, a) : a \in
                    {x \in Bodies :
                        /\ Cardinality(Neighbours(step, x)) >= 2
                        /\ ~(Cardinality(Neighbours(step, x)) = 2
                               /\ "Sun" \in Neighbours(step, x))}}
        /\ \A a, b, c \in Bodies :
              (/\ Cardinality({a, b, c}) = 3
               /\ AlignedAt(step, a, b) /\ AlignedAt(step, a, c)
               /\ ~AlignedAt(step, b, c))
                 => \E G \in Keys(active_groups) :
                       /\ SeqToSet(G) = Neighbours(step, a)
                       /\ {a, b, c} \subseteq SeqToSet(G)

\* At the timestep just processed A-B and A-C hold, B-C does not, and the
\* three bodies are one open interval.
C4_Witness ==
    /\ pc = "scan" /\ step >= 1
    /\ ~StepRaises(trajectories, CurrentMode, u_sw)
    /\ \E a, b, c \in Bodies \ {"Sun"} :
          /\ Cardinality({a, b, c}) = 3
          /\ AlignedAt(step, a, b) /\ AlignedAt(step, a, c) /\ ~AlignedAt(step, b, c)
          /\ \E G \in Keys(active_groups) : {a, b, c} \subseteq SeqToSet(G)

\* The names of a tuple are in strictly ascending order.
IsSortedStrict(G) == \A i \in 1..(Len(G) - 1) : NameRank[G[i]] < NameRank[G[i + 1]]

\* C5: the body list of every open interval and of every record is sorted
\* ascending without a duplicate body, and no two open intervals have the
\* same membership: a membership found from several anchors at one timestep
\* is one open interval.
C5_CanonicalGroups ==
    /\ \A G \in HeldGroups : IsSortedStrict(G)
    /\ \A i, j \in 1..Len(active_groups) :
          i # j => SeqToSet(active_groups[i].group) # SeqToSet(active_groups[j].group)
    /\ (pc = "scan" /\ step >= 1 /\ ~StepRaises(trajectories, CurrentMode, u_sw)) =>
          Len(active_groups) = Cardinality(GroupSetAt(step))

\* At the timestep just processed two anchors found the same membership,
\* whose tuple is not in the insertion order of the bodies.
C5_Witness ==
    /\ pc = "scan" /\ step >= 1
    /\ ~StepRaises(trajectories, CurrentMode, u_sw)
    /\ \E a, b \in Bodies :
          /\ a # b
          /\ Neighbours(step, a) = Neighbours(step, b)
          /\ \E G \in Keys(active_groups) :
                /\ SeqToSet(G) = Neighbours(step, a)
                /\ \E i \in 1..(Len(G) - 1) :
                      IndexOf(trajectories, G[i]) > IndexOf(trajectories, G[i + 1])

\* The modes of geometry_choices that matching_dates scans.
RequestedRecognized ==
    {geometry_choices[i] : i \in {k \in 1..Len(geometry_choices) :
                                     IsRecognized(geometry_choices[k])}}

\* matching_dates printed a line for the mode string m.
HasLine(m) == \E k \in 1..Len(printed) : printed[k].mode = m

\* Some timestep has a group under the requested mode m.
SomeGroupUnder(m) ==
    \E s \in 1..NumSteps(trajectories) :
        Groups(geometry, trajectories, Lower(m), arbitrary_angle, u_sw, s) # <<>>

\* C6 as stated: the returned mapping has a key for every requested
\* recognized mode, a mode without records included.
C6_Original ==
    (pc = "done" /\ u_sw > 0) => \A m \in RequestedRecognized : m \in DOMAIN all_matching_entries

\* C6 amended: the returned mapping has a key for exactly the requested
\* recognized modes under which some timestep has a group, each mapped to a
\* non-empty list; a scanned mode without records has no key and is only
\* printed, with zero matches.
C6_KeysAreModesWithRecords ==
    pc = "done" =>
        /\ DOMAIN all_matching_entries = {m \in RequestedRecognized : SomeGroupUnder(m)}
        /\ \A m \in DOMAIN all_matching_entries : all_matching_entries[m] # <<>>
        /\ \A m \in RequestedRecognized \ DOMAIN all_matching_entries :
              \E k \in 1..Len(printed) : printed[k] = [mode |-> m, matches |-> 0]

\* matching_dates has returned a mapping with a key for one requested mode
\* and none for another requested recognized mode.
C6_Witness ==
    /\ pc = "done"
    /\ DOMAIN all_matching_entries # {}
    /\ RequestedRecognized \ DOMAIN all_matching_entries # {}

\* C7: a requested mode string that is none of the six recognized values,
\* whatever its case, is reported by matching_dates, and every requested
\* recognized mode is scanned.
C7_UnknownModeReported ==
    (pc = "done" /\ u_sw > 0) =>
        \A i \in 1..Len(geometry_choices) :
            (IsRecognized(geometry_choices[i]) \/ ~IsRecognized(Lower(geometry_choices[i])))
               => HasLine(geometry_choices[i])

\* parker or coneparker is among the requested modes.
ParkerRequested ==
    \E i \in 1..Len(geometry_choices) : geometry_choices[i] \in {"parker", "coneparker"}

\* C8: with solar_wind_speed <= 0 and parker or coneparker requested, the
\* call still returns: the scan of parker and coneparker is aborted (no
\* result, no line of matches) and every other requested recognized mode is
\* scanned.
C8_BadWindSpeedAbortsModeOnly ==
    (pc \in {"done", "raised"} /\ u_sw <= 0 /\ ParkerRequested) =>
        /\ pc = "done"
        /\ \A m \in RequestedRecognized :
              IF m \in {"parker", "coneparker"}
              THEN m \notin DOMAIN all_matching_entries /\ ~HasLine(m)
              ELSE HasLine(m)

\* The trajectories differ in length, or in a timestamp at some index.
Mismatched(traj) ==
    \E i, j \in 1..Len(traj) :
        \/ Len(traj[i].coords) # Len(traj[j].coords)
        \/ \E s \in 1..Len(traj[i].coords) :
              s <= Len(traj[j].coords) /\ traj[i].coords[s].date # traj[j].coords[s].date

\* C9: mismatched trajectories are rejected before any timestep is scanned,
\* and no record is produced from them.
C9_MismatchRejected ==
    Mismatched(trajectories) =>
        /\ pc \in {"start", "loop", "scan", "raised"}
        /\ step = 0
        /\ matching_entries = <<>>
        /\ all_matching_entries = <<>>

\* The record of a group over the single timestep T of the scenario.
AtT(G) ==
    [start |-> Strftime(DateOf(trajectories, 1)),
     end |-> Strftime(DateOf(trajectories, 1)), group |-> G]

\* check_geometry has returned from the scan of the three-body scenario.
ScenarioReturned ==
    trajectories = ScenarioTrajectories /\ pc = "returned" /\ u_sw > 0

\* C10 as stated: opposition yields the one record {A,B}, quadrature exactly
\* the two records {A,C} and {B,C}, cone none.
C10_Original ==
    ScenarioReturned =>
        /\ CurrentMode = "opposition" => matching_entries = <<AtT(<<"A", "B">>)>>
        /\ CurrentMode = "quadrature" =>
              /\ Len(matching_entries) = 2
              /\ SeqToSet(matching_entries) = {AtT(<<"A", "C">>), AtT(<<"B", "C">>)}
        /\ CurrentMode = "cone" => matching_entries = <<>>

\* C10 amended: opposition yields the one record {A,B}; quadrature yields
\* three records, {A,C}, {B,C} and the group {A,B,C} of anchor C, each over
\* [T,T]; cone yields none.
C10_Scenario ==
    ScenarioReturned =>
        /\ CurrentMode = "opposition" => matching_entries = <<AtT(<<"A", "B">>)>>
        /\ CurrentMode = "quadrature" =>
              /\ Len(matching_entries) = 3
              /\ SeqToSet(matching_entries)
                    = {AtT(<<"A", "C">>), AtT(<<"B", "C">>), AtT(<<"A", "B", "C">>)}
        /\ CurrentMode = "cone" => matching_entries = <<>>

\* The quadrature scan of the scenario has returned its records.
C10_Witness ==
    /\ ScenarioReturned
    /\ CurrentMode = "quadrature"
    /\ matching_entries # <<>>

\* The longitude check_geometry reads for a body at timestep s.
LonAt(s, a) == geometry.angles[s][IndexOf(trajectories, a)]

\* The signed difference x brought into (-HalfTurn, HalfTurn].
Wrap(x) ==
    LET m == PyMod(x, FullTurn)
    IN IF m > HalfTurn THEN m - FullTurn ELSE m

\* A timestep of a scan in the given mode has just been processed.
Processed(mode) == pc = "scan" /\ step >= 1 /\ CurrentMode = mode

\* C11: in cone mode two bodies are classified as aligned exactly when the
\* absolute value of their wrapped longitude difference is at most
\* cone_width, so a pair at 355 and 5 degrees is classified like a pair at 0
\* and 10 degrees.
C11_ConeIsWrappedSeparation ==
    Processed("cone") =>
        \A a \in Bodies : \A b \in Bodies \ {a} :
            AlignedAt(step, a, b)
                <=> Abs(Wrap(LonAt(step, a) - LonAt(step, b))) <= geometry.cone_width

\* The latitude of a body at timestep s, as its trajectory gives it.
LatAt(s, a) == trajectories[IndexOf(trajectories, a)].coords[s].lat

\* The latitudes of two bodies at timestep s are within tolerance (np.isclose
\* taken in either order).
LatWithin(s, a, b) ==
    \/ IsClose(LatAt(s, a), LatAt(s, b), geometry.tolerance)
    \/ IsClose(LatAt(s, b), LatAt(s, a), geometry.tolerance)

\* The Parker footpoint longitude of a body at timestep s.
FootpointAt(s, a) ==
    parker_spiral_function(trajectories[IndexOf(trajectories, a)].coords[s].r,
                           LonAt(s, a), u_sw)

\* The footpoints of two bodies at timestep s are within tolerance_parker.
FootpointWithin(s, a, b) ==
    \/ IsClose(FootpointAt(s, a), FootpointAt(s, b), ToleranceParker * ParkerScale(u_sw))
    \/ IsClose(FootpointAt(s, b), FootpointAt(s, a), ToleranceParker * ParkerScale(u_sw))

\* C12: in parker and coneparker mode two bodies are aligned only if their
\* footpoints are within tolerance_parker and their latitudes within tolerance
\* (and, in coneparker, their raw longitudes within cone_width), and no open
\* group holds two bodies whose latitudes differ by more than tolerance.
C12_ParkerRequiresLatitude ==
    (Processed("parker") \/ Processed("coneparker")) =>
        /\ \A a \in Bodies : \A b \in Bodies \ {a} :
              AlignedAt(step, a, b) =>
                  /\ FootpointWithin(step, a, b)
                  /\ LatWithin(step, a, b)
                  /\ Processed("coneparker") =>
                        Abs(LonAt(step, a) - LonAt(step, b)) <= geometry.cone_width
        /\ \A G \in Keys(active_groups) :
              \A a \in SeqToSet(G) : \A b \in SeqToSet(G) :
                  LatWithin(step, a, b)

\* C13: in quadrature mode two bodies are aligned when their longitude
\* difference or their latitude difference is a quarter turn within
\* tolerance: longitudes 0 and 90 degrees match, and so do latitudes 0 and 90
\* degrees at one longitude.
C13_QuadratureEitherBranch ==
    Processed("quadrature") =>
        \A a \in Bodies : \A b \in Bodies \ {a} :
            (\/ IsClose(Abs(LonAt(step, a) - LonAt(step, b)), HalfTurn \div 2,
                        geometry.tolerance)
             \/ IsClose(Abs(LatAt(step, a) - LatAt(step, b)), HalfTurn \div 2,
                        geometry.tolerance))
                => AlignedAt(step, a, b)

\* C14: in arbitrary mode with no arbitrary_angle no pair of bodies is
\* classified as aligned at any timestep, no interval is ever open and the
\* scan returns no records.
C14_ArbitraryWithoutAngleNeverMatches ==
    (InScan /\ CurrentMode = "arbitrary" /\ arbitrary_angle = <<>>) =>
        /\ active_groups = <<>>
        /\ matching_entries = <<>>
        /\ \A s \in 1..step : \A a \in Bodies : \A b \in Bodies \ {a} :
              ~AlignedAt(s, a, b)

\* A scan in arbitrary mode without an angle has returned after a timestep
\* where two bodies are exactly opposed and two others share a longitude.
C14_Witness ==
    /\ pc = "returned"
    /\ CurrentMode = "arbitrary"
    /\ arbitrary_angle = <<>>
    /\ step >= 1
    /\ \E a \in Bodies : \E b \in Bodies \ {a} :
          Abs(LonAt(1, a) - LonAt(1, b)) = HalfTurn

\* The records the mapping holds for a mode, as rows tagged with that mode.
InputRows ==
    UNION {{Row(m, all_matching_entries[m][i]) : i \in 1..Len(all_matching_entries[m])} :
           m \in DOMAIN all_matching_entries}

\* The record a row was made from.
EntryOfRow(row) == [start |-> row.start, end |-> row.end, group |-> row.group]

\* C15: save_match writes, after the header row
\* start_date,end_date,geometry,spacecrafts, the records of all modes in
\* non-decreasing order of start; the rows are exactly the records of the
\* mapping, each as often as its mode holds it and tagged with its mode.
C15_RowsSortedAndComplete ==
    pc = "saved" =>
        /\ \A i \in 1..(Len(saved.rows) - 1) :
              saved.rows[i].start <= saved.rows[i + 1].start
        /\ SeqToSet(saved.rows) = InputRows
        /\ \A row \in InputRows :
              Count(saved.rows, row)
                  = Count(all_matching_entries[row.geom], EntryOfRow(row))
        /\ saved.rows # <<>> => saved.header = HeaderRow

\* save_match has written the records of two modes, and a record of the
\* second mode starts before a record of the first.
C15_Witness ==
    /\ pc = "saved"
    /\ Len(geometry_choices) >= 2
    /\ \E i \in 1..Len(saved.rows) : \E j \in (i + 1)..Len(saved.rows) :
          /\ saved.rows[i].start < saved.rows[j].start
          /\ saved.rows[i].geom = Lower(geometry_choices[2])
          /\ saved.rows[j].geom = Lower(geometry_choices[1])
          /\ geometry_choices[1] # geometry_choices[2]

\* The records of one call of check_geometry on the current Geometry object,
\* folded over the timesteps from the given open intervals and records.
RECURSIVE ScanFrom(_, _, _)
ScanFrom(active, entries, s) ==
    IF s > NumSteps(trajectories) THEN entries \o FlushEntries(active)
    ELSE LET new_active_groups ==
                 NewActiveGroups(Groups(geometry, trajectories, CurrentMode,
                                        arbitrary_angle, u_sw, s),
                                 active, DateOf(trajectories, s))
         IN ScanFrom(new_active_groups,
                     entries \o EndedEntries(active, new_active_groups), s + 1)

\* The records of a call that starts with no open interval and no record.
FreshScan == ScanFrom(<<>>, <<>>, 1)

\* The records the returned mapping holds for a mode string, none if absent.
StoredFor(m) ==
    IF m \in DOMAIN all_matching_entries THEN all_matching_entries[m] ELSE <<>>

\* The Geometry object is as __init__ left it.
GeometryAsConstructed ==
    (pc # "start" /\ exception # "IndexError") => geometry = NewGeometry(trajectories)

\* C16: a scan keeps no state across calls. The Geometry object's angles,
\* latitudes and parameters stay as constructed, and the records a call
\* returns are those of a scan started from an empty open-interval mapping,
\* whether the mode is scanned first, after other modes or again: a repeated
\* mode returns the records stored for it before.
C16_ScanKeepsNoState ==
    /\ GeometryAsConstructed
    /\ pc = "returned" =>
          /\ matching_entries = FreshScan
          /\ \A j \in 1..(mode_idx - 1) :
                geometry_choices[j] = geometry_choices[mode_idx] =>
                    matching_entries = StoredFor(geometry_choices[j])

\* The second scan of a call, in another mode than the first, has returned
\* records that differ from the records stored for the first.
C16_Witness ==
    /\ pc = "returned"
    /\ mode_idx = 2
    /\ geometry_choices[1] # geometry_choices[2]
    /\ all_matching_entries # <<>>
    /\ matching_entries # <<>>
    /\ matching_entries # all_matching_entries[geometry_choices[1]]

\* The open interval of group G in a mapping of open intervals.
IntervalOf(active, G) == Lookup(active, G)

\* C17: processing timestep k leaves the key set of the open-interval mapping
\* equal to the set of groups found at k; every open interval then has
\* last-seen timestamp k's, a group already open at k-1 keeps its start and a
\* group not open at k-1 starts at k's timestamp.
C17_OpenIntervalsFollowCurrentGroups ==
    [][(pc = "scan" /\ pc' = "scan" /\ step' = step + 1) =>
          /\ Keys(active_groups') = GroupSetAt(step')
          /\ \A G \in Keys(active_groups') :
                /\ IntervalOf(active_groups', G).end_date = DateOf(trajectories, step')
                /\ G \in Keys(active_groups) =>
                      IntervalOf(active_groups', G).start_date
                          = IntervalOf(active_groups, G).start_date
                /\ G \notin Keys(active_groups) =>
                      IntervalOf(active_groups', G).start_date
                          = DateOf(trajectories, step')]_vars

\* After a timestep past the first, one open interval began at an earlier
\* timestep and another began at this one.
C17_Witness ==
    /\ pc = "scan"
    /\ step >= 2
    /\ \E G \in Keys(active_groups) :
          /\ IntervalOf(active_groups, G).start_date < DateOf(trajectories, step)
          /\ IntervalOf(active_groups, G).end_date = DateOf(trajectories, step)
    /\ \E G \in Keys(active_groups) :
          IntervalOf(active_groups, G).start_date = DateOf(trajectories, step)

\* The trajectories cut down to the single timestep k.
OnlyStep(traj, k) ==
    [i \in 1..Len(traj) |-> [name |-> traj[i].name, coords |-> <<traj[i].coords[k]>>]]

\* The group set of a scan that is given the positions of timestep k alone,
\* under the current mode and parameters.
GroupSetOfPositionsAt(k) ==
    SeqToSet(Groups(NewGeometry(OnlyStep(trajectories, k)), OnlyStep(trajectories, k),
                    CurrentMode, arbitrary_angle, u_sw, 1))

\* The positions of all bodies at timestep k.
PositionsAt(k) ==
    [i \in 1..Len(trajectories) |->
        [lon |-> trajectories[i].coords[k].lon, lat |-> trajectories[i].coords[k].lat,
         r |-> trajectories[i].coords[k].r]]

\* C18: the set of groups computed at timestep k is a function of the bodies'
\* positions at k and the mode parameters alone: it is the set a scan computes
\* from the positions of k with no other timestep and no open interval.
C18_GroupsDependOnCurrentStepOnly ==
    (pc = "scan" /\ step >= 1) =>
        Keys(active_groups) = GroupSetOfPositionsAt(step)

\* A timestep has been processed whose positions and groups differ from those
\* of the timestep before it, with intervals open.
C18_Witness ==
    /\ pc = "scan"
    /\ step >= 2
    /\ active_groups # <<>>
    /\ PositionsAt(step) # PositionsAt(step - 1)
    /\ GroupSetOfPositionsAt(step - 1) # {}
    /\ GroupSetOfPositionsAt(step - 1) # Keys(active_groups)

\* C19: the pairwise decision is symmetric in the two bodies in every mode:
\* at every processed timestep B is aligned with anchor A exactly when A is
\* aligned with anchor B.
C19_ClassifierSymmetric ==
    (pc = "scan" /\ step >= 1) =>
        \A a \in Bodies : \A b \in Bodies \ {a} :
            AlignedAt(step, a, b) <=> AlignedAt(step, b, a)

\* The formatted timestamps of the timesteps before the given one.
StampsBefore(k) == {Strftime(DateOf(trajectories, s)) : s \in 1..(k - 1)}

\* C20: the records of a scan are in emission order with non-decreasing end:
\* a record closed at timestep k ends at the timestamp of k-1 and precedes
\* every record closed later, and the records flushed after the loop, which
\* end at the final timestamp, come last.
C20_RecordsInEmissionOrder ==
    InScan =>
        /\ \A i \in 1..(Len(matching_entries) - 1) :
              matching_entries[i].end <= matching_entries[i + 1].end
        /\ pc = "scan" =>
              \A i \in 1..Len(matching_entries) :
                  matching_entries[i].end \in StampsBefore(step)
        /\ pc = "returned" =>
              \A i \in 1..Len(matching_entries) :
                  IF i > Len(matching_entries) - Len(active_groups)
                  THEN matching_entries[i].end = Strftime(DateOf(trajectories, step))
                  ELSE matching_entries[i].end \in StampsBefore(step)

\* A scan has returned a record closed during the loop ahead of a flushed
\* record that starts before it: the list is not sorted by start.
C20_Witness ==
    /\ pc = "returned"
    /\ \E i \in 1..Len(matching_entries) : \E j \in (i + 1)..Len(matching_entries) :
          /\ matching_entries[j].start < matching_entries[i].start
          /\ matching_entries[i].end < matching_entries[j].end
          /\ j > Len(matching_entries) - Len(active_groups)

\* The timestamps check_geometry reads grow strictly along the timeline.
StrictlyIncreasingTimeline ==
    \A s \in 1..(NumSteps(trajectories) - 1) :
        DateOf(trajectories, s) < DateOf(trajectories, s + 1)

\* The processed timesteps at which group G was present, gs being the group
\* sets of the timeline.
StepsPresent(gs, G) == {s \in 1..step : G \in gs[s]}

\* C21: on a timeline of strictly increasing timestamps every open interval
\* and every emitted record has start <= end, and its start and its end are
\* each the timestamp of a timestep at which its group was present.
C21_IntervalsWithinPresence ==
    (ScanDefined /\ StrictlyIncreasingTimeline) =>
        LET gs == GroupSets
        IN /\ \A i \in 1..Len(active_groups) :
                 /\ active_groups[i].start_date <= active_groups[i].end_date
                 /\ \E s \in StepsPresent(gs, active_groups[i].group) :
                       DateOf(trajectories, s) = active_groups[i].start_date
                 /\ \E s \in StepsPresent(gs, active_groups[i].group) :
                       DateOf(trajectories, s) = active_groups[i].end_date
           /\ \A i \in 1..Len(matching_entries) :
                 /\ matching_entries[i].start <= matching_entries[i].end
                 /\ \E s \in StepsPresent(gs, matching_entries[i].group) :
                       Strftime(DateOf(trajectories, s)) = matching_entries[i].start
                 /\ \E s \in StepsPresent(gs, matching_entries[i].group) :
                       Strftime(DateOf(trajectories, s)) = matching_entries[i].end

\* A scan has returned a record that spans more than one timestep, for a
\* group that was absent at another timestep of the timeline.
C21_Witness ==
    /\ pc = "returned"
    /\ ScanDefined
    /\ StrictlyIncreasingTimeline
    /\ \E i \in 1..Len(matching_entries) :
          /\ matching_entries[i].start < matching_entries[i].end
          /\ StepsPresent(GroupSets, matching_entries[i].group) # 1..step

\* The records of one call of check_geometry on the Geometry object g, folded
\* over the timesteps from the given open intervals and records.
RECURSIVE ScanOf(_, _, _, _)
ScanOf(g, active, entries, s) ==
    IF s > NumSteps(trajectories) THEN entries \o FlushEntries(active)
    ELSE LET new_active_groups ==
                 NewActiveGroups(Groups(g, trajectories, CurrentMode,
                                        arbitrary_angle, u_sw, s),
                                 active, DateOf(trajectories, s))
         IN ScanOf(g, new_active_groups,
                   entries \o EndedEntries(active, new_active_groups), s + 1)

\* The Geometry class that is not the one running the scan.
OtherClass ==
    IF HasLatitudes THEN "solarconflux.spatialitems.geometries"
    ELSE "solarconflux.geometries"

\* The record list the other Geometry class returns for the same call.
RecordsOfOtherClass ==
    ScanOf(GeometryOf(OtherClass, trajectories, tolerance), <<>>, <<>>, 1)

\* All bodies have the same latitude at every timestep.
SameLatitudes ==
    \A s \in 1..NumSteps(trajectories) :
        \A i \in 1..Len(trajectories) : \A j \in 1..Len(trajectories) :
            trajectories[i].coords[s].lat = trajectories[j].coords[s].lat

\* The tolerance is not negative and below a quarter turn.
ToleranceInRange == 0 <= tolerance /\ tolerance < HalfTurn \div 2

\* C22 as stated: on any input whose bodies all have the same latitude at
\* every timestep the two Geometry classes return identical record lists, in
\* every mode.
C22_Original ==
    (pc = "returned" /\ SameLatitudes) => matching_entries = RecordsOfOtherClass

\* C22: with a tolerance that is not negative and below a quarter turn, the
\* two Geometry classes return identical record lists, in every mode, on any
\* input whose bodies all have the same latitude at every timestep; they
\* differ only where some pair of bodies has different latitudes.
C22_VariantsAgreeOnEqualLatitudes ==
    (pc = "returned" /\ SameLatitudes /\ ToleranceInRange) =>
        matching_entries = RecordsOfOtherClass

\* A scan in a mode whose condition mentions latitude in one class only has
\* returned records for bodies of equal latitude.
C22_Witness ==
    /\ pc = "returned"
    /\ SameLatitudes
    /\ ToleranceInRange
    /\ CurrentMode \in {"quadrature", "parker", "coneparker"}
    /\ matching_entries # <<>>
    /\ matching_entries = RecordsOfOtherClass

====
